---------------------------- MODULE Spec2Model ----------------------------
(***************************************************************************)
(* A model of src/tote.py, the tote label generator: the location parser   *)
(* (parse_location_string), the column resolution, the per-row label       *)
(* composition and the document assembly of generate_sticker_labels.       *)
(*                                                                         *)
(* Python strings are sequences of one-character strings, so that          *)
(* substring tests, stripping, slicing and tokenising are computed and not *)
(* assumed.  Python values that may be None or NaN are tagged records.     *)
(***************************************************************************)
EXTENDS Integers, Sequences, FiniteSets, TLC

VARIABLES
    pc,             \* position of the run: see the actions
    df_columns,     \* df.columns as loaded (original casing)
    df_rows,        \* the rows of df, in order: one row kind per row
    df_index,       \* the index label of each row (what iterrows() yields)
    reporting,      \* whether progress_bar / status_container were passed
    cols,           \* cols: the upper-cased column names (line 130)
    mapping,        \* part_no_col, desc_col, qty_bin_col, loc_col, store_loc_col
    temp_file,      \* whether the temporary output file exists on disk
    all_elements,   \* the flowables appended so far
    row_pos,        \* how many rows the loop has processed
    progress,       \* the values passed to progress_bar.progress
    status,         \* the messages written to status_container
    qr_failed,      \* the rows for which generate_qr_code reported an error
    build_error,    \* whether doc.build raised (the `e` of line 376)
    result,         \* what generate_sticker_labels handed to its caller
    call,           \* argument of a function checked in isolation
    ret,            \* its return value
    again           \* the return value of the second application

vars == <<pc, df_columns, df_rows, df_index, reporting, cols, mapping,
          temp_file, all_elements, row_pos, progress, status, qr_failed,
          build_error, result, call, ret, again>>

--------------------------------------------------------------------------
(* Python values *)

None == [type |-> "NoneType"]
NaN == [type |-> "float"]
Str(s) == [type |-> "str", s |-> s]
PyInt(n) == [type |-> "int", n |-> n]

\* isinstance(v, str)
IsStr(v) == v.type = "str"

\* bool(v): the truth value Python gives `not v` / `if v`
Truthy(v) ==
    CASE v.type = "NoneType" -> FALSE
      [] v.type = "str" -> v.s # <<>>
      [] v.type = "int" -> v.n # 0
      [] OTHER -> TRUE

\* pd.notna(v)
NotNa(v) == v.type \notin {"NoneType", "float"}

\* str(v)
ToStr(v) ==
    CASE v.type = "str" -> v.s
      [] v.type = "float" -> <<"n", "a", "n">>
      [] v.type = "NoneType" -> <<"N", "o", "n", "e">>
      [] v.type = "int" ->
            <<<<"0", "1", "2", "3", "4", "5", "6", "7", "8", "9">>[v.n + 1]>>

--------------------------------------------------------------------------
(* String helpers *)

Lower == <<"a","b","c","d","e","f","g","h","i","j","k","l","m",
           "n","o","p","q","r","s","t","u","v","w","x","y","z">>
Upper == <<"A","B","C","D","E","F","G","H","I","J","K","L","M",
           "N","O","P","Q","R","S","T","U","V","W","X","Y","Z">>

LowerSet == {Lower[k] : k \in 1..26}
UpperOf == [c \in LowerSet |-> Upper[CHOOSE k \in 1..26 : Lower[k] = c]]

\* one character of str.upper()
UpperChar(c) == IF c \in LowerSet THEN UpperOf[c] ELSE c

\* s.upper()
ToUpper(s) == [k \in 1..Len(s) |-> UpperChar(s[k])]

\* sub in s
Contains(s, sub) ==
    \E off \in 0..(Len(s) - Len(sub)) :
        \A k \in 1..Len(sub) : s[off + k] = sub[k]

\* what \s and str.strip() treat as whitespace
IsSpace(c) == c \in {" ", "\t", "\n"}

RECURSIVE LStrip(_)
LStrip(s) == IF s # <<>> /\ IsSpace(Head(s)) THEN LStrip(Tail(s)) ELSE s

RECURSIVE RStrip(_)
RStrip(s) ==
    IF s # <<>> /\ IsSpace(s[Len(s)]) THEN RStrip(SubSeq(s, 1, Len(s) - 1)) ELSE s

\* s.strip()
Strip(s) == RStrip(LStrip(s))

\* s[:n]
Prefix(s, n) == SubSeq(s, 1, IF Len(s) < n THEN Len(s) ELSE n)

--------------------------------------------------------------------------
(* parse_location_string *)

NumSlots == 7

\* the character class [^_\s]
\* faulty variant: whitespace is not a separator
TokenCharUnderscoreOnly(c) == c # "_"
\* faulty variant: the underscore is not a separator
TokenCharSpaceOnly(c) == ~IsSpace(c)
TokenChar(c) == c # "_" /\ ~IsSpace(c)

\* re.findall(r'([^_\s]+)', s): scan left to right, each match greedy.
\* `cur` is the match being extended, `acc` the matches found so far.
RECURSIVE FindAllFrom(_, _, _, _)
FindAllFrom(s, k, cur, acc) ==
    IF k > Len(s)
    THEN IF cur = <<>> THEN acc ELSE Append(acc, cur)
    ELSE IF TokenChar(s[k])
         THEN FindAllFrom(s, k + 1, Append(cur, s[k]), acc)
         ELSE FindAllFrom(s, k + 1, <<>>,
                          IF cur = <<>> THEN acc ELSE Append(acc, cur))

FindAll(s) == FindAllFrom(s, 1, <<>>, <<>>)

EmptySlots == [k \in 1..NumSlots |-> <<>>]

\* for i, match in enumerate(matches[:7]): location_parts[i] = match
FillSlots(matches) ==
    LET kept == Prefix(matches, NumSlots)
    IN  [k \in 1..NumSlots |-> IF k <= Len(kept) THEN kept[k] ELSE <<>>]

parse_location_string(location_str) ==
    IF ~Truthy(location_str) \/ ~IsStr(location_str)
    THEN EmptySlots
    ELSE FillSlots(FindAll(Strip(location_str.s)))

--------------------------------------------------------------------------
(* Column resolution: generate_sticker_labels, lines 127-153 *)

\* next((col for col in cs if P(col)), default), `hits` being the positions
\* of cs that satisfy P: the first such element in list order
FirstMatch(hits, cs, default) ==
    IF hits # {}
    THEN Str(cs[CHOOSE k \in hits : \A j \in hits : k <= j])
    ELSE default

\* 'PART' in col and ('NO' in col or 'NUM' in col or '#' in col)
IsPartNo(col) ==
    /\ Contains(col, <<"P", "A", "R", "T">>)
    /\ \/ Contains(col, <<"N", "O">>)
       \/ Contains(col, <<"N", "U", "M">>)
       \/ Contains(col, <<"#">>)

\* col in ['PARTNO', 'PART']
IsPartLiteral(col) == col \in {<<"P", "A", "R", "T", "N", "O">>, <<"P", "A", "R", "T">>}

IsDesc(col) == Contains(col, <<"D", "E", "S", "C">>)
IsName(col) == Contains(col, <<"N", "A", "M", "E">>)

\* 'QTY/BIN' in col or 'QTY_BIN' in col or 'QTYBIN' in col
IsQtyBin(col) ==
    \/ Contains(col, <<"Q", "T", "Y", "/", "B", "I", "N">>)
    \/ Contains(col, <<"Q", "T", "Y", "_", "B", "I", "N">>)
    \/ Contains(col, <<"Q", "T", "Y", "B", "I", "N">>)

\* 'QTY' in col and 'BIN' in col
IsQtyAndBin(col) == Contains(col, <<"Q", "T", "Y">>) /\ Contains(col, <<"B", "I", "N">>)
IsQty(col) == Contains(col, <<"Q", "T", "Y">>)
IsQuantity(col) == Contains(col, <<"Q", "U", "A", "N", "T", "I", "T", "Y">>)

\* 'LOC' in col or 'POS' in col or 'LOCATION' in col
IsLoc(col) ==
    \/ Contains(col, <<"L", "O", "C">>)
    \/ Contains(col, <<"P", "O", "S">>)
    \/ Contains(col, <<"L", "O", "C", "A", "T", "I", "O", "N">>)

\* 'STORE' in col and 'LOC' in col
IsStoreLoc(col) == Contains(col, <<"S", "T", "O", "R", "E">>) /\ Contains(col, <<"L", "O", "C">>)
IsStoreLocation(col) == Contains(col, <<"S", "T", "O", "R", "E", "L", "O", "C", "A", "T", "I", "O", "N">>)

\* df.columns = [col.upper() ...]; cols = df.columns.tolist()
UpperColumns(columns) == [k \in 1..Len(columns) |-> ToUpper(columns[k])]

\* lines 133-134 (cs is not empty: cols[0] is evaluated before either search)
PartNoCol(cs) ==
    FirstMatch({k \in 1..Len(cs) : IsPartNo(cs[k])}, cs,
        FirstMatch({k \in 1..Len(cs) : IsPartLiteral(cs[k])}, cs, Str(cs[1])))

\* lines 136-137
DescCol(cs, part_no_col) ==
    FirstMatch({k \in 1..Len(cs) : IsDesc(cs[k])}, cs,
        FirstMatch({k \in 1..Len(cs) : IsName(cs[k])}, cs,
            IF Len(cs) > 1 THEN Str(cs[2]) ELSE part_no_col))

\* lines 140-146
\* faulty variant: the specific QTY/BIN searches are skipped
QtyBinColQtyFirst(cs) ==
    FirstMatch({k \in 1..Len(cs) : IsQty(cs[k])}, cs,
        FirstMatch({k \in 1..Len(cs) : IsQuantity(cs[k])}, cs, None))
QtyBinCol(cs) ==
    LET qty_bin_col ==
            FirstMatch({k \in 1..Len(cs) : IsQtyBin(cs[k])}, cs,
                FirstMatch({k \in 1..Len(cs) : IsQtyAndBin(cs[k])}, cs, None))
    IN  IF ~Truthy(qty_bin_col)
        THEN FirstMatch({k \in 1..Len(cs) : IsQty(cs[k])}, cs,
                 FirstMatch({k \in 1..Len(cs) : IsQuantity(cs[k])}, cs, None))
        ELSE qty_bin_col

\* lines 148-149
\* faulty variant: cols[2] is never the default
LocColDescFallback(cs, desc_col) ==
    FirstMatch({k \in 1..Len(cs) : IsLoc(cs[k])}, cs, desc_col)
LocCol(cs, desc_col) ==
    FirstMatch({k \in 1..Len(cs) : IsLoc(cs[k])}, cs,
        IF Len(cs) > 2 THEN Str(cs[3]) ELSE desc_col)

\* lines 152-153
StoreLocCol(cs) ==
    FirstMatch({k \in 1..Len(cs) : IsStoreLoc(cs[k])}, cs,
        FirstMatch({k \in 1..Len(cs) : IsStoreLocation(cs[k])}, cs, None))

Resolve(columns) ==
    LET cs == UpperColumns(columns)
        part_no_col == PartNoCol(cs)
        desc_col == DescCol(cs, part_no_col)
    IN  [part_no_col |-> part_no_col,
         desc_col |-> desc_col,
         qty_bin_col |-> QtyBinCol(cs),
         loc_col |-> LocCol(cs, desc_col),
         store_loc_col |-> StoreLocCol(cs)]

\* lines 155-162: the status messages naming the columns in use
ColumnMessages(m) ==
    <<<<"Using columns">>,
      <<"Part No", ToStr(m.part_no_col)>>,
      <<"Description", ToStr(m.desc_col)>>,
      <<"Location", ToStr(m.loc_col)>>,
      <<"Qty/Bin", ToStr(m.qty_bin_col)>>>>
        \o (IF Truthy(m.store_loc_col)
            THEN <<<<"Store Location", ToStr(m.store_loc_col)>>>>
            ELSE <<>>)

--------------------------------------------------------------------------
(* The state before generate_sticker_labels is entered *)

NoMapping ==
    [part_no_col |-> None, desc_col |-> None, qty_bin_col |-> None,
     loc_col |-> None, store_loc_col |-> None]

RunNotStarted ==
    /\ cols = <<>>
    /\ mapping = NoMapping
    /\ temp_file = "absent"
    /\ all_elements = <<>>
    /\ row_pos = 0
    /\ progress = <<>>
    /\ status = <<>>
    /\ qr_failed = {}
    /\ build_error = FALSE
    /\ result = "pending"

NoTable ==
    /\ df_columns = <<>>
    /\ df_rows = <<>>
    /\ df_index = <<>>
    /\ reporting = FALSE

NoCall ==
    /\ call = None
    /\ ret = <<>>
    /\ again = <<>>

runVars == <<df_columns, df_rows, df_index, reporting, cols, mapping,
             temp_file, all_elements, row_pos, progress, status, qr_failed,
             build_error, result>>

--------------------------------------------------------------------------
(* generate_sticker_labels, first step: lines 127-162 *)

\* Identify the columns.  With no column at all cols[0] (line 134) raises
\* IndexError before anything else is done, and nothing catches it.
\* faulty variant: an empty column list is given the empty mapping
ResolveColumnsDefaulting ==
    /\ pc = "start"
    /\ cols' = UpperColumns(df_columns)
    /\ mapping' = IF df_columns = <<>> THEN NoMapping ELSE Resolve(df_columns)
    /\ pc' = "resolved"
    /\ status' = IF reporting /\ df_columns # <<>>
                 THEN status \o ColumnMessages(Resolve(df_columns))
                 ELSE status
    /\ UNCHANGED <<df_columns, df_rows, df_index, reporting, temp_file,
                   all_elements, row_pos, progress, qr_failed, build_error,
                   result, call, ret, again>>
ResolveColumns ==
    /\ pc = "start"
    /\ cols' = UpperColumns(df_columns)
    /\ IF df_columns = <<>>
       THEN /\ pc' = "raised"
            /\ result' = "IndexError"
            /\ UNCHANGED <<mapping, status>>
       ELSE /\ mapping' = Resolve(df_columns)
            /\ status' = IF reporting
                         THEN status \o ColumnMessages(mapping')
                         ELSE status
            /\ pc' = "resolved"
            /\ UNCHANGED result
    /\ UNCHANGED <<df_columns, df_rows, df_index, reporting, temp_file,
                   all_elements, row_pos, progress, qr_failed, build_error,
                   call, ret, again>>

--------------------------------------------------------------------------
(* One row: generate_sticker_labels, lines 188-361 *)

TruncLimit == 30

\* desc[:30] + "..." if len(desc) > 30 else desc
\* faulty variant: len(desc) >= 30
ShownDescInclusive(desc) ==
    IF Len(desc) >= TruncLimit
    THEN Prefix(desc, TruncLimit) \o <<".", ".", ".">>
    ELSE desc
ShownDesc(desc) ==
    IF Len(desc) > TruncLimit
    THEN Prefix(desc, TruncLimit) \o <<".", ".", ".">>
    ELSE desc

\* lines 202-203
QrData(part_no, desc, location_str, store_location, qty_bin) ==
    <<"P", "a", "r", "t", " ", "N", "o", ":", " ">> \o part_no \o <<"\n">>
        \o <<"D", "e", "s", "c", "r", "i", "p", "t", "i", "o", "n", ":", " ">> \o desc \o <<"\n">>
        \o <<"L", "o", "c", "a", "t", "i", "o", "n", ":", " ">> \o location_str \o <<"\n">>
        \o <<"S", "t", "o", "r", "e", " ", "L", "o", "c", "a", "t", "i", "o", "n", ":", " ">> \o store_location \o <<"\n">>
        \o <<"Q", "T", "Y", "/", "B", "I", "N", ":", " ">> \o qty_bin

\* generate_qr_code: the image, or None when anything in it raised
generate_qr_code(data_string, fails) ==
    IF fails THEN None ELSE [type |-> "Image", data |-> data_string]

\* lines 328-341: the image, or the placeholder paragraph
\* faulty variant: no placeholder
QrCellUnguarded(qr_image) == qr_image
QrCell(qr_image) ==
    IF Truthy(qr_image)
    THEN qr_image
    ELSE [type |-> "Paragraph", text |-> <<"Q", "R">>]

\* line 253
StoreLocValues(store_location) ==
    IF store_location # <<>>
    THEN parse_location_string(Str(store_location))
    ELSE <<<<>>, <<>>, <<>>, <<>>, <<>>, <<>>, <<>>>>

\* final_table: the label of one row, from the values extracted from it
ComposeLabel(part_no, desc, qty_bin, location_str, store_location, qr_fails) ==
    [type |-> "Table",
     part_no |-> part_no,
     desc |-> ShownDesc(desc),
     qty_bin |-> qty_bin,
     s_loc |-> StoreLocValues(store_location),
     l_loc |-> parse_location_string(Str(location_str)),
     qr |-> QrCell(generate_qr_code(
                QrData(part_no, desc, location_str, store_location, qty_bin),
                qr_fails))]

Spacer == [type |-> "Spacer"]
PageBreak == [type |-> "PageBreak"]

--------------------------------------------------------------------------
(* The rows of the table *)

RowKinds == {"text", "blank"}

ColumnTag == <<"a", "b", "c", "d", "e", "f">>

\* the cell of a row in the p-th column: a text cell names its column, a
\* blank cell is what the loader gives for an empty field
Cell(kind, p) ==
    IF kind = "text"
    THEN Str(<<ColumnTag[p], "1", "_", "X", " ", "Y">>)
    ELSE NaN

\* col in row
InRow(cs, col) == \E p \in 1..Len(cs) : Str(cs[p]) = col

\* row[col]
RowGet(kind, cs, col) == Cell(kind, CHOOSE p \in 1..Len(cs) : Str(cs[p]) = col)

\* lines 189-198: the values extracted from a row
PartNoOf(kind, cs, m) == ToStr(RowGet(kind, cs, m.part_no_col))
DescOf(kind, cs, m) == ToStr(RowGet(kind, cs, m.desc_col))
QtyBinOf(kind, cs, m) ==
    IF Truthy(m.qty_bin_col) /\ InRow(cs, m.qty_bin_col)
            /\ NotNa(RowGet(kind, cs, m.qty_bin_col))
    THEN ToStr(RowGet(kind, cs, m.qty_bin_col))
    ELSE <<>>
LocationOf(kind, cs, m) ==
    IF Truthy(m.loc_col) /\ InRow(cs, m.loc_col)
    THEN ToStr(RowGet(kind, cs, m.loc_col))
    ELSE <<>>
StoreLocationOf(kind, cs, m) ==
    IF Truthy(m.store_loc_col) /\ InRow(cs, m.store_loc_col)
    THEN ToStr(RowGet(kind, cs, m.store_loc_col))
    ELSE <<>>

\* the label of a row of the table
RowLabel(kind, cs, m, qr_fails) ==
    ComposeLabel(PartNoOf(kind, cs, m), DescOf(kind, cs, m), QtyBinOf(kind, cs, m),
                 LocationOf(kind, cs, m), StoreLocationOf(kind, cs, m), qr_fails)

--------------------------------------------------------------------------
(* generate_sticker_labels, the remaining steps *)

\* lines 164-174: the temporary file, the document template, all_elements
CreateDocument ==
    /\ pc = "resolved"
    /\ temp_file' = "empty"
    /\ all_elements' = <<>>
    /\ pc' = "rows"
    /\ UNCHANGED <<df_columns, df_rows, df_index, reporting, cols, mapping,
                   row_pos, progress, status, qr_failed, build_error, result,
                   call, ret, again>>

\* lines 366-368: a page break after each sticker except the last one,
\* decided on the row's index label
BreakAfter(index, position, total_rows) ==
    IF index < total_rows - 1 THEN <<PageBreak>> ELSE <<>>

\* lines 178-368: one pass of the loop.  The QR code may fail to generate,
\* which generate_qr_code absorbs; anything else that raises in the body
\* (nothing in the loop catches) leaves the function.
ProcessRow ==
    /\ pc = "rows"
    /\ row_pos < Len(df_rows)
    /\ LET position == row_pos + 1
           index == df_index[position]
           total_rows == Len(df_rows)
       IN  /\ progress' = IF reporting
                          THEN Append(progress, <<index + 1, total_rows>>)
                          ELSE progress
           /\ status' = IF reporting
                        THEN Append(status, <<"Creating sticker", index + 1, total_rows>>)
                        ELSE status
           /\ \E outcome \in {"ok", "qr_failed", "raised"} :
                IF outcome = "raised"
                THEN /\ pc' = "raised"
                     /\ result' = "Exception"
                     /\ UNCHANGED <<all_elements, row_pos, qr_failed>>
                ELSE /\ qr_failed' = IF outcome = "qr_failed"
                                     THEN qr_failed \cup {position}
                                     ELSE qr_failed
                     /\ all_elements' =
                            all_elements
                                \o <<Spacer,
                                     RowLabel(df_rows[position], cols, mapping,
                                              outcome = "qr_failed")>>
                                \o BreakAfter(index, position, total_rows)
                     /\ row_pos' = position
                     /\ UNCHANGED <<pc, result>>
    /\ UNCHANGED <<df_columns, df_rows, df_index, reporting, cols, mapping,
                   temp_file, build_error, call, ret, again>>

\* faulty variant: an empty element list is refused
BuildDocumentRejectEmpty ==
    /\ pc = "rows"
    /\ row_pos = Len(df_rows)
    /\ \E built \in BOOLEAN :
         IF built /\ all_elements # <<>>
         THEN /\ temp_file' = "document"
              /\ status' = IF reporting
                           THEN Append(status, <<"PDF generated successfully!">>)
                           ELSE status
              /\ result' = "path"
              /\ UNCHANGED build_error
         ELSE /\ temp_file' = "leftover"
              /\ build_error' = ~built
              /\ status' = IF reporting
                           THEN Append(status, <<"Error building PDF">>)
                           ELSE status
              /\ result' = "None"
    /\ pc' = "done"
    /\ UNCHANGED <<df_columns, df_rows, df_index, reporting, cols, mapping,
                   all_elements, row_pos, progress, qr_failed, call, ret, again>>

\* lines 370-379: build the document; an exception of doc.build is caught
\* and None returned, the temporary file staying on disk with whatever
\* doc.build wrote ("leftover")
BuildDocument ==
    /\ pc = "rows"
    /\ row_pos = Len(df_rows)
    /\ \E built \in BOOLEAN :
         IF built
         THEN /\ temp_file' = "document"
              /\ status' = IF reporting
                           THEN Append(status, <<"PDF generated successfully!">>)
                           ELSE status
              /\ result' = "path"
              /\ UNCHANGED build_error
         ELSE /\ temp_file' = "leftover"
              /\ build_error' = TRUE
              /\ status' = IF reporting
                           THEN Append(status, <<"Error building PDF">>)
                           ELSE status
              /\ result' = "None"
    /\ pc' = "done"
    /\ UNCHANGED <<df_columns, df_rows, df_index, reporting, cols, mapping,
                   all_elements, row_pos, progress, qr_failed, call, ret, again>>

--------------------------------------------------------------------------
(* The tables generate_sticker_labels is run on *)

MaxCols == 3
MaxRows == 2

\* the loader gives every column its own name
Distinct(seq) == \A j, k \in 1..Len(seq) : j # k => seq[j] # seq[k]

TablesOver(names, n) ==
    {t \in UNION {[1..k -> names] : k \in 0..n} : Distinct(t)}

RunColumnNames ==
    {<<"A">>, <<"B">>, <<"C">>, <<"Q", "t", "y">>, <<"S", "t", "o", "r", "e", " ", "L", "o", "c">>}

RunTables == TablesOver(RunColumnNames, MaxCols)

\* the index labels of n rows: the default 0..n-1, labels read from a file
\* that counts from 1, and a table sorted in descending order of its labels
IndexLabelings(n) ==
    {[k \in 1..n |-> k - 1], [k \in 1..n |-> k], [k \in 1..n |-> n - k]}

Init ==
    /\ pc = "start"
    /\ df_columns \in RunTables
    /\ df_rows \in UNION {[1..n -> RowKinds] : n \in 0..MaxRows}
    /\ df_index \in IndexLabelings(Len(df_rows))
    /\ reporting = TRUE    \* main passes both sinks (lines 432-436)
    /\ RunNotStarted
    /\ NoCall

Next ==
    \/ ResolveColumns
    \/ CreateDocument
    \/ ProcessRow
    \/ BuildDocument

Spec == Init /\ [][Next]_vars

--------------------------------------------------------------------------
(* Column resolution in isolation *)

MaxResolveCols == 3

ColumnNames ==
    {<<"P", "a", "r", "t", " ", "N", "u", "m", "b", "e", "r">>,
     <<"P", "a", "r", "t", "N", "o">>,
     <<"P", "a", "r", "t">>,
     <<"S", "p", "a", "r", "e", " ", "P", "a", "r", "t", "s">>,
     <<"D", "e", "s", "c", "r", "i", "p", "t", "i", "o", "n">>,
     <<"I", "t", "e", "m", " ", "N", "a", "m", "e">>,
     <<"Q", "t", "y", "/", "B", "i", "n">>,
     <<"B", "i", "n", " ", "Q", "t", "y">>,
     <<"Q", "t", "y">>,
     <<"Q", "u", "a", "n", "t", "i", "t", "y">>,
     <<"L", "o", "c", "a", "t", "i", "o", "n">>,
     <<"S", "t", "o", "r", "e", " ", "L", "o", "c", "a", "t", "i", "o", "n">>,
     <<"P", "o", "s">>,
     <<"A">>, <<"B">>, <<"C">>}

ExampleColumns ==
    <<<<"P", "a", "r", "t", " ", "N", "u", "m", "b", "e", "r">>,
      <<"D", "e", "s", "c", "r", "i", "p", "t", "i", "o", "n">>,
      <<"L", "o", "c", "a", "t", "i", "o", "n">>,
      <<"Q", "t", "y", "/", "B", "i", "n">>,
      <<"S", "t", "o", "r", "e", " ", "L", "o", "c", "a", "t", "i", "o", "n">>>>

ResolveTables == TablesOver(ColumnNames, MaxResolveCols) \cup {ExampleColumns}

InitResolve ==
    /\ pc = "start"
    /\ df_columns \in ResolveTables
    /\ df_rows = <<>>
    /\ df_index = <<>>
    /\ reporting = TRUE    \* main passes both sinks (lines 432-436)
    /\ RunNotStarted
    /\ NoCall

NextResolve == ResolveColumns

SpecResolve == InitResolve /\ [][NextResolve]_vars

--------------------------------------------------------------------------
(* C5 *)

\* the same letter, whatever the case
CasePairs ==
    {<<Lower[k], Upper[k]>> : k \in 1..26} \cup {<<Upper[k], Lower[k]>> : k \in 1..26}

SameLetter(a, b) == a = b \/ <<a, b>> \in CasePairs

\* name contains word, case-insensitively
Has(name, word) ==
    \E off \in 0..(Len(name) - Len(word)) :
        \A k \in 1..Len(word) : SameLetter(name[off + k], word[k])

Is(name, word) == Len(name) = Len(word) /\ Has(name, word)

Roles ==
    {"part_no_col", "desc_col", "qty_bin_col", "loc_col", "store_loc_col"}

\* the rules of a role, by priority (1 is the highest)
RuleCount(role) ==
    CASE role = "part_no_col" -> 2
      [] role = "desc_col" -> 2
      [] role = "qty_bin_col" -> 4
      [] role = "loc_col" -> 1
      [] role = "store_loc_col" -> 1

RuleMatches(role, k, name) ==
    CASE role = "part_no_col" /\ k = 1 ->
            /\ Has(name, <<"P", "A", "R", "T">>)
            /\ Has(name, <<"N", "O">>) \/ Has(name, <<"N", "U", "M">>) \/ Has(name, <<"#">>)
      [] role = "part_no_col" /\ k = 2 ->
            Is(name, <<"P", "A", "R", "T", "N", "O">>) \/ Is(name, <<"P", "A", "R", "T">>)
      [] role = "desc_col" /\ k = 1 -> Has(name, <<"D", "E", "S", "C">>)
      [] role = "desc_col" /\ k = 2 -> Has(name, <<"N", "A", "M", "E">>)
      [] role = "qty_bin_col" /\ k = 1 ->
            \/ Has(name, <<"Q", "T", "Y", "/", "B", "I", "N">>)
            \/ Has(name, <<"Q", "T", "Y", "_", "B", "I", "N">>)
            \/ Has(name, <<"Q", "T", "Y", "B", "I", "N">>)
      [] role = "qty_bin_col" /\ k = 2 ->
            Has(name, <<"Q", "T", "Y">>) /\ Has(name, <<"B", "I", "N">>)
      [] role = "qty_bin_col" /\ k = 3 -> Has(name, <<"Q", "T", "Y">>)
      [] role = "qty_bin_col" /\ k = 4 -> Has(name, <<"Q", "U", "A", "N", "T", "I", "T", "Y">>)
      [] role = "loc_col" /\ k = 1 -> Has(name, <<"L", "O", "C">>) \/ Has(name, <<"P", "O", "S">>)
      [] role = "store_loc_col" /\ k = 1 ->
            Has(name, <<"S", "T", "O", "R", "E">>) /\ Has(name, <<"L", "O", "C">>)
      [] OTHER -> FALSE

RuleHits(role, k, columns) ==
    {p \in 1..Len(columns) : RuleMatches(role, k, columns[p])}

Matched(role, columns) ==
    \E k \in 1..RuleCount(role) : RuleHits(role, k, columns) # {}

Min(S) == CHOOSE x \in S : \A y \in S : x <= y

\* the first column, in table order, that matches the highest-priority rule
\* matched by any column
ExpectedPos(role, columns) ==
    LET best == Min({k \in 1..RuleCount(role) : RuleHits(role, k, columns) # {}})
    IN  Min(RuleHits(role, best, columns))

\* the positions of the column a role resolved to
ChosenPos(role) == {p \in 1..Len(cols) : Str(cols[p]) = mapping[role]}

\* C5: for every list of column names and every role some rule matches, the
\* chosen column is the first column matching the highest-priority matched
\* rule, case-insensitively; the example table maps to its five columns.
C5_RulePriority ==
    pc = "resolved" =>
        /\ \A role \in Roles :
              Matched(role, df_columns) =>
                  ChosenPos(role) = {ExpectedPos(role, df_columns)}
        /\ df_columns = ExampleColumns =>
              /\ ChosenPos("part_no_col") = {1}
              /\ ChosenPos("desc_col") = {2}
              /\ ChosenPos("loc_col") = {3}
              /\ ChosenPos("qty_bin_col") = {4}
              /\ ChosenPos("store_loc_col") = {5}

\* a table where a lower-priority quantity rule matches an earlier column
\* than the rule that wins
C5_Witness ==
    /\ pc = "resolved"
    /\ Len(df_columns) = 3
    /\ RuleHits("qty_bin_col", 3, df_columns) = {1, 2, 3}
    /\ RuleHits("qty_bin_col", 2, df_columns) = {2, 3}
    /\ RuleHits("qty_bin_col", 1, df_columns) = {3}
    /\ ChosenPos("qty_bin_col") = {3}

--------------------------------------------------------------------------
(* C11 *)

\* the column of the example table that carries a role's name
RoleName(role) ==
    CASE role = "part_no_col" -> ExampleColumns[1]
      [] role = "desc_col" -> ExampleColumns[2]
      [] role = "loc_col" -> ExampleColumns[3]
      [] role = "qty_bin_col" -> ExampleColumns[4]
      [] role = "store_loc_col" -> ExampleColumns[5]

\* the positions of the columns that carry the role's name
Named(role, columns) ==
    {p \in 1..Len(columns) : Is(columns[p], RoleName(role))}

\* a column that is none of the role's: no rule of the role matches its
\* name, or it carries the name of another role
Unrelated(role, name) ==
    \/ \A k \in 1..RuleCount(role) : ~RuleMatches(role, k, name)
    \/ \E other \in Roles \ {role} : Is(name, RoleName(other))

\* the tables that keep the column at position p and permute the others
Reordered(columns, p) ==
    {[k \in 1..Len(columns) |-> columns[q[k]]] :
        q \in {r \in Permutations(1..Len(columns)) : r[p] = p}}

\* C11: when exactly one column carries a role's name and every other
\* column is unrelated to the role (columns of other roles included, such
\* as a store-location column beside the line-location column), the role
\* resolves to the same column however the other columns are ordered.
C11_OrderIndependent ==
    pc = "resolved" =>
        \A role \in Roles :
            \A p \in Named(role, df_columns) :
                /\ Named(role, df_columns) = {p}
                /\ \A k \in 1..Len(df_columns) :
                      k # p => Unrelated(role, df_columns[k])
                => \A t \in Reordered(df_columns, p) :
                      Resolve(t)[role] = mapping[role]

--------------------------------------------------------------------------
(* parse_location_string in isolation *)

MaxLocLen == 5
MaxTokens == 9

ParseAlphabet == {"A", "B", "_", " "}

ShortStrings == UNION {[1..n -> ParseAlphabet] : n \in 0..MaxLocLen}

\* the k-th token and the separator after it, in a few styles
Tok(k, style) ==
    CASE style = 1 -> <<"A">>
      [] style = 2 -> IF k % 2 = 1 THEN <<"A", "B">> ELSE <<"B">>
      [] OTHER -> <<"L", "-", "0", "1">>

Sep(k, style) ==
    CASE style = 1 -> <<"_">>
      [] style = 2 -> <<" ">>
      [] style = 3 -> IF k % 2 = 1 THEN <<"_", "_">> ELSE <<"\t">>
      [] OTHER -> <<" ", "_", "\n">>

RECURSIVE TokenString(_, _, _)
TokenString(n, ts, ss) ==
    IF n = 0 THEN <<>>
    ELSE IF n = 1 THEN Tok(1, ts)
    ELSE TokenString(n - 1, ts, ss) \o Sep(n - 1, ss) \o Tok(n, ts)

Pads == {<<>>, <<" ">>, <<"_">>, <<"\t", "_">>}

LongStrings ==
    {p \o TokenString(n, ts, ss) \o q :
        n \in 0..MaxTokens, ts \in 1..3, ss \in 1..4, p \in Pads, q \in Pads}

LocationArgs ==
    {Str(s) : s \in ShortStrings \cup LongStrings}
        \cup {None, NaN, PyInt(0), PyInt(5)}

InitParse ==
    /\ pc = "call"
    /\ call \in LocationArgs
    /\ ret = <<>>
    /\ again = <<>>
    /\ NoTable
    /\ RunNotStarted

\* location_parts = parse_location_string(call)
ParseCall ==
    /\ pc = "call"
    /\ ret' = parse_location_string(call)
    /\ pc' = "returned"
    /\ UNCHANGED <<call, again, runVars>>

\* "_".join(parts)
RECURSIVE Join(_)
Join(parts) ==
    IF parts = <<>> THEN <<>>
    ELSE IF Len(parts) = 1 THEN parts[1]
    ELSE parts[1] \o <<"_">> \o Join(Tail(parts))

AllSlotsFilled(parts) == \A k \in 1..Len(parts) : parts[k] # <<>>

\* a fully populated result joined with single underscores and parsed again
ParseAgain ==
    /\ pc = "returned"
    /\ AllSlotsFilled(ret)
    /\ again' = parse_location_string(Str(Join(ret)))
    /\ pc' = "reparsed"
    /\ UNCHANGED <<call, ret, runVars>>

NextParse == ParseCall \/ ParseAgain

SpecParse == InitParse /\ [][NextParse]_vars

--------------------------------------------------------------------------
(* C1 *)

IsSep(c) == c = "_" \/ IsSpace(c)

\* a maximal run of characters that are neither whitespace nor underscore
\* starts at a: s[a] is such a character and s[a-1] is not (or a is first)
RunStarts(s) ==
    {a \in 1..Len(s) : ~IsSep(s[a]) /\ (a = 1 \/ IsSep(s[a - 1]))}

\* ... and ends at the last position before the next separator
RunEnd(s, a) ==
    CHOOSE b \in a..Len(s) :
        /\ \A k \in a..b : ~IsSep(s[k])
        /\ b = Len(s) \/ IsSep(s[b + 1])

\* the n-th run in input order
NthRun(s, n) ==
    LET starts == RunStarts(s)
        a == CHOOSE x \in starts : Cardinality({q \in starts : q < x}) = n - 1
    IN  SubSeq(s, a, RunEnd(s, a))

NumRuns(v) == IF IsStr(v) THEN Cardinality(RunStarts(v.s)) ELSE 0

ExpectedSlot(v, n) == IF n <= NumRuns(v) THEN NthRun(v.s, n) ELSE <<>>

\* C1: for every input (string, empty string, None, non-string) the result has
\* exactly 7 slots, slot i holding the i-th maximal run of non-whitespace,
\* non-underscore characters, later runs dropped, missing ones empty;
\* "A_B C" gives A, B, C and four empty slots.
C1_ParseSlots ==
    pc \in {"returned", "reparsed"} =>
        /\ Len(ret) = 7
        /\ \A n \in 1..7 : ret[n] = ExpectedSlot(call, n)
        /\ call = Str(<<"A", "_", "B", " ", "C">>) =>
               ret = <<<<"A">>, <<"B">>, <<"C">>, <<>>, <<>>, <<>>, <<>>>>
        /\ call \in {Str(<<>>), None} => ret = <<<<>>, <<>>, <<>>, <<>>, <<>>, <<>>, <<>>>>

\* a string with more than 7 tokens, separated by mixed whitespace and
\* underscores, has been parsed
C1_Witness ==
    /\ pc = "returned"
    /\ IsStr(call)
    /\ NumRuns(call) > 7
    /\ \E k \in 1..Len(call.s) : call.s[k] = "\t"
    /\ \E k \in 1..Len(call.s) : call.s[k] = "_"
    /\ ret[7] # <<>>

--------------------------------------------------------------------------
(* C10 *)

\* C10: a result whose 7 slots are all non-empty, joined with single
\* underscores and parsed again, gives the same 7 slots.
C10_ReparseSame == pc = "reparsed" => again = ret

\* a space-separated input with at least 7 tokens has been re-parsed
C10_Witness ==
    /\ pc = "reparsed"
    /\ AllSlotsFilled(again)
    /\ Join(ret) # call.s
    /\ \E k \in 1..7 : Len(ret[k]) > 1

--------------------------------------------------------------------------
(* The label composition in isolation *)

MaxDescLen == 33

DescChar(k, style) ==
    CASE style = 1 -> "x"
      [] style = 2 -> <<"0", "1", "2", "3", "4", "5", "6", "7", "8", "9">>[(k % 10) + 1]
      [] OTHER -> IF k % 7 = 0 THEN " " ELSE "d"

MakeDesc(n, style) == [k \in 1..n |-> DescChar(k, style)]

Descriptions == {MakeDesc(n, style) : n \in 0..MaxDescLen, style \in 1..3}

InitLabel ==
    /\ pc = "compose"
    /\ call \in [part_no : {<<"P", "1">>},
                 desc : Descriptions,
                 qty_bin : {<<>>, <<"1", "0">>},
                 location_str : {<<"L", "1", "_", "A", " ", "2">>},
                 store_location : {<<>>},
                 qr_fails : BOOLEAN]
    /\ ret = <<>>
    /\ again = <<>>
    /\ NoTable
    /\ RunNotStarted

\* the body of the loop on the values of one row: the label and the text
\* handed to generate_qr_code
ComposeCall ==
    /\ pc = "compose"
    /\ ret' = [label |-> ComposeLabel(call.part_no, call.desc, call.qty_bin,
                                      call.location_str, call.store_location,
                                      call.qr_fails),
               qr_data |-> QrData(call.part_no, call.desc, call.location_str,
                                  call.store_location, call.qty_bin)]
    /\ pc' = "composed"
    /\ UNCHANGED <<call, again, runVars>>

NextLabel == ComposeCall

SpecLabel == InitLabel /\ [][NextLabel]_vars

--------------------------------------------------------------------------
(* C2 *)

IsTable(e) == e.type = "Table"
IsBreak(e) == e.type = "PageBreak"

Labels(elements) == SelectSeq(elements, IsTable)
Breaks(elements) == SelectSeq(elements, IsBreak)

LoopFinished == pc \in {"rows", "done"} /\ row_pos = Len(df_rows)

\* C2: a table of N rows gives N labels, each a spacer and a label table, in
\* row order, with a page break after every label except the last: N - 1
\* page breaks, none at the end, whatever the index labels of the rows.
C2_OnePagePerRow ==
    LoopFinished =>
        LET n == Len(df_rows)
        IN  /\ Len(Labels(all_elements)) = n
            /\ Len(Breaks(all_elements)) = IF n = 0 THEN 0 ELSE n - 1
            /\ Len(all_elements) = IF n = 0 THEN 0 ELSE 3 * n - 1
            /\ \A k \in 1..n :
                  /\ all_elements[3 * k - 2] = Spacer
                  /\ IsTable(all_elements[3 * k - 1])
                  /\ k < n => IsBreak(all_elements[3 * k])

--------------------------------------------------------------------------
(* C3 *)

\* the pages the elements lay out to: a label starts a page unless a label
\* precedes it with no page break in between (a page holds four labels)
PageStarts(elements) ==
    {k \in 1..Len(elements) :
        /\ IsTable(elements[k])
        /\ ~\E j \in 1..(k - 1) :
              /\ IsTable(elements[j])
              /\ \A i \in (j + 1)..(k - 1) : ~IsBreak(elements[i])}

PageCount(elements) == Cardinality(PageStarts(elements))

\* C3: a run ends in one of two ways: a document is returned and it has one
\* page per row of the table, or no document is returned (None, or an
\* exception); an error in a row or in the build never returns a document
\* of some of the rows.
C3_AllOrNothing ==
    /\ pc \notin {"done", "raised"} => result = "pending"
    /\ pc \in {"done", "raised"} =>
          \/ /\ result = "path"
             /\ temp_file = "document"
             /\ row_pos = Len(df_rows)
             /\ Len(Labels(all_elements)) = Len(df_rows)
             /\ PageCount(all_elements) = Len(df_rows)
          \/ result \in {"None", "Exception", "IndexError"}

--------------------------------------------------------------------------
(* C4 *)

Placeholder == [type |-> "Paragraph", text |-> <<"Q", "R">>]

\* C4: a row whose QR code failed to generate still gets its label, with
\* the text "QR" in place of the image; every label is otherwise what it is
\* without the failure; the loop goes on to the last row and, the build
\* succeeding, the run returns the document.
C4_QrFailureAbsorbed ==
    LET labels == Labels(all_elements)
    IN  /\ qr_failed \subseteq 1..row_pos
        /\ Len(labels) = row_pos
        /\ \A k \in 1..row_pos :
              LET clean == RowLabel(df_rows[k], cols, mapping, FALSE)
              IN  /\ labels[k].qr = IF k \in qr_failed THEN Placeholder ELSE clean.qr
                  /\ clean.qr.type = "Image"
                  /\ [labels[k] EXCEPT !.qr = clean.qr] = clean
        /\ pc = "done" /\ ~build_error => result = "path" /\ row_pos = Len(df_rows)
        /\ pc = "raised" => result # "path"

\* the QR code of the first of two rows failed and the run returned the
\* document
C4_Witness ==
    /\ pc = "done"
    /\ result = "path"
    /\ Len(df_rows) = 2
    /\ qr_failed = {1}
    /\ Labels(all_elements)[1].qr = Placeholder
    /\ Labels(all_elements)[2].qr.type = "Image"

--------------------------------------------------------------------------
(* C6 *)

ColumnsABC == <<<<"A">>, <<"B">>, <<"C">>>>

\* C6: with at least one column, part_no, description and line_location each
\* resolve to a column of the table; a role no name matches falls back to
\* column 0, to column 1 (or the part_no column), to column 2 (or the
\* description column), and quantity and store location stay None; every
\* row then gets a label, with an empty quantity and seven empty store
\* slots.  (The mapping is set once, by the resolution, so it is examined in
\* the state the resolution leaves.)
C6_Fallbacks ==
    /\ pc = "resolved" =>
          /\ \A role \in {"part_no_col", "desc_col", "loc_col"} :
                Cardinality(ChosenPos(role)) = 1
          /\ ~Matched("part_no_col", df_columns) => ChosenPos("part_no_col") = {1}
          /\ ~Matched("desc_col", df_columns) =>
                ChosenPos("desc_col") =
                    IF Len(df_columns) > 1 THEN {2} ELSE ChosenPos("part_no_col")
          /\ ~Matched("loc_col", df_columns) =>
                ChosenPos("loc_col") =
                    IF Len(df_columns) > 2 THEN {3} ELSE ChosenPos("desc_col")
          /\ ~Matched("qty_bin_col", df_columns) => mapping.qty_bin_col = None
          /\ ~Matched("store_loc_col", df_columns) => mapping.store_loc_col = None
          /\ df_columns = ColumnsABC =>
                mapping = [part_no_col |-> Str(<<"A">>),
                           desc_col |-> Str(<<"B">>),
                           loc_col |-> Str(<<"C">>),
                           qty_bin_col |-> None,
                           store_loc_col |-> None]
    /\ pc \in {"rows", "done"} =>
          LET labels == Labels(all_elements)
          IN  /\ Len(labels) = row_pos
              /\ pc = "done" => row_pos = Len(df_rows)
              /\ \A k \in 1..row_pos :
                    /\ mapping.qty_bin_col = None => labels[k].qty_bin = <<>>
                    /\ mapping.store_loc_col = None =>
                          labels[k].s_loc = <<<<>>, <<>>, <<>>, <<>>, <<>>, <<>>, <<>>>>

\* the table A, B, C with two rows, the first a text row, has been labelled
C6_Witness ==
    /\ pc = "done"
    /\ df_columns = ColumnsABC
    /\ row_pos = 2
    /\ df_rows[1] = "text"
    /\ Labels(all_elements)[1].part_no = <<"a", "1", "_", "X", " ", "Y">>
    /\ Labels(all_elements)[1].desc = <<"b", "1", "_", "X", " ", "Y">>
    /\ Labels(all_elements)[1].l_loc[1] = <<"c", "1">>
    /\ Labels(all_elements)[1].qty_bin = <<>>

--------------------------------------------------------------------------
(* C7 *)

\* C7: a table with no column makes the run fail with an exception that
\* reaches the caller, before the output file is created, before any row is
\* processed and before anything is reported.
C7_NoColumnsRaises ==
    df_columns = <<>> /\ pc # "start" =>
        /\ pc = "raised"
        /\ result = "IndexError"
        /\ temp_file = "absent"
        /\ row_pos = 0
        /\ all_elements = <<>>
        /\ progress = <<>>
        /\ status = <<>>

\* a table with rows and no column, run with a progress sink, has failed
C7_Witness ==
    /\ df_columns = <<>>
    /\ Len(df_rows) > 0
    /\ reporting
    /\ pc = "raised"

--------------------------------------------------------------------------
(* C8 *)

IsCreating(message) == message[1] = "Creating sticker"

\* C8: with no row and at least one column the loop runs zero times: no
\* label, no page break, no progress; nothing raises, and the build
\* succeeding the run returns the document, of 0 pages.
C8_EmptyDataset ==
    df_rows = <<>> /\ df_columns # <<>> =>
        /\ pc # "raised"
        /\ row_pos = 0
        /\ all_elements = <<>>
        /\ PageCount(all_elements) = 0
        /\ progress = <<>>
        /\ SelectSeq(status, IsCreating) = <<>>
        /\ pc = "done" =>
              IF build_error
              THEN result = "None"
              ELSE result = "path" /\ temp_file = "document"

\* a table with columns and no row has been run to a returned document
C8_Witness ==
    /\ df_rows = <<>>
    /\ Len(df_columns) = 2
    /\ reporting
    /\ pc = "done"
    /\ result = "path"
    /\ Len(status) > 1

--------------------------------------------------------------------------
(* C9 *)

\* C9: the label shows the whole description when it has at most 30
\* characters (30 included) and its first 30 characters followed by "..."
\* when it has more; the QR text carries the whole description.
C9_DescriptionTruncation ==
    pc = "composed" =>
        LET shown == ret.label.desc
            n == Len(call.desc)
        IN  /\ n <= 30 => shown = call.desc
            /\ n > 30 =>
                  /\ Len(shown) = 33
                  /\ \A k \in 1..30 : shown[k] = call.desc[k]
                  /\ \A k \in 31..33 : shown[k] = "."
            /\ Contains(ret.qr_data,
                        <<"D", "e", "s", "c", "r", "i", "p", "t", "i", "o", "n", ":", " ">> \o call.desc \o <<"\n">> \o <<"L", "o", "c", "a", "t", "i", "o", "n", ":", " ">>)
            /\ ~call.qr_fails => ret.label.qr.data = ret.qr_data

\* a description of exactly 30 characters has been composed, untruncated
C9_Witness ==
    /\ pc = "composed"
    /\ Len(call.desc) = 30
    /\ ret.label.desc = call.desc
    /\ call.desc[30] = "0"

==========================================================================
